---- MODULE Spec2Model ----
(***************************************************************************)
(* A model of the File Notes plugin (netopolit/obsidian-file-notes-plugin). *)
(*                                                                         *)
(* Strings (paths, file names, templates, the extensions setting) are      *)
(* sequences of one-character strings, so that the regular expressions and *)
(* the string methods of the source are computed character by character.   *)
(***************************************************************************)
EXTENDS Integers, Sequences, FiniteSets, TLC

VARIABLES
    \* ---- getNotePath as a pure function (SpecPath)
    pathIn,        \* file.path handed to getNotePath
    pathOut,       \* the string getNotePath returned
    pathDone,      \* TRUE once getNotePath has been applied to pathIn
    \* ---- getNoteContent as a pure function (SpecContent)
    tplIn,         \* settings.noteTemplate
    nameIn,        \* file.name
    contentOut,    \* the string getNoteContent returned
    contentDone,   \* TRUE once getNoteContent has been applied
    \* ---- the vault and the operations on it (Spec)
    vault,         \* path -> "none" | "file" | "folder": the host's file map
    inflight,      \* storage operations issued and not yet settled
    batch,         \* the running (or last) createFileNotes / removeFileNotes call
    hist,          \* history: the previous createFileNotes call
    effects,       \* history: the storage mutations that succeeded
    modal,         \* the ConfirmDeleteModal
    ops,           \* number of user commands and external events so far
    \* ---- FileNotePlugin's settings and caches
    fileExtensions,      \* settings.fileExtensions
    autoCreate,          \* settings.autoCreate
    excludedFiles,       \* settings.excludedFiles
    excludedFolders,     \* settings.excludedFolders
    excludedFilesSet,    \* this.excludedFilesSet
    excludedFoldersSet,  \* this.excludedFoldersSet
    cachedExtensions,    \* this.cachedExtensions
    pendingSaves,        \* saveSettings calls awaiting saveData
    togLog,              \* history: the last two toggle...Exclusion calls
    \* ---- what the last query returned (SpecExcl, SpecExt)
    query,               \* the last isInExcludedFolder call
    extResult,           \* the last getExtensions call
    \* ---- what the user is shown
    notices,             \* number of 'No file extensions configured' notices
    \* ---- HiddenFilesManager and the file explorer it marks (SpecHidden)
    hideFilesWithNotes,  \* settings.hideFilesWithNotes
    hasHiddenFiles,      \* this.hasHiddenFiles
    items,               \* fileItems: path -> "none" | "shown" | "hidden"
    explorer,            \* TRUE while a file-explorer leaf is open
    timer,               \* the timer of debouncedUpdate
    burst,               \* history: the events since the timer was last idle
    passLog,             \* history: the last update() call
    unloaded,            \* TRUE once onunload has run
    layoutReady,         \* TRUE once the onLayoutReady callback has run
    \* ---- the notes-folder settings and their settings tab (SpecFolder)
    notesFolder,         \* settings.notesFolder
    addSourceFrontmatter, \* settings.addSourceFrontmatter
    tab                  \* the settings tab: open, and its frontmatter toggle

pathVars == <<pathIn, pathOut, pathDone>>
contentVars == <<tplIn, nameIn, contentOut, contentDone>>
pureVars == <<pathVars, contentVars>>
vaultVars == <<vault, inflight, batch, hist, effects, modal, ops>>
settingsVars == <<fileExtensions, autoCreate, excludedFiles, excludedFolders,
                  excludedFilesSet, excludedFoldersSet, cachedExtensions,
                  pendingSaves, togLog>>
probeVars == <<query, extResult>>
hiddenVars == <<hideFilesWithNotes, hasHiddenFiles, items, explorer, timer,
                burst, passLog, unloaded, layoutReady>>
folderVars == <<notesFolder, addSourceFrontmatter, tab>>
restVars == <<hiddenVars, folderVars>>
moreVars == <<notices, restVars>>

vars == <<pureVars, vaultVars, settingsVars, probeVars, moreVars>>

-----------------------------------------------------------------------------
(* Bounds of the model *)

\* longest path handed to getNotePath in SpecPath
MaxPathLen == 7

-----------------------------------------------------------------------------
(* Strings *)

\* All sequences over S of length 0..n
SeqsUpTo(S, n) == UNION {[1..k -> S] : k \in 0..n}

\* String.prototype.lastIndexOf for a one-character needle, 1-based; 0 = absent
LastIndexOf(s, c) ==
    IF \E i \in 1..Len(s) : s[i] = c
    THEN CHOOSE i \in 1..Len(s) : s[i] = c /\ \A j \in (i+1)..Len(s) : s[j] # c
    ELSE 0

\* String.prototype.startsWith
StartsWith(s, prefix) ==
    /\ Len(prefix) <= Len(s)
    /\ SubSeq(s, 1, Len(prefix)) = prefix

\* String.prototype.endsWith
EndsWith(s, suffix) ==
    /\ Len(suffix) <= Len(s)
    /\ SubSeq(s, Len(s) - Len(suffix) + 1, Len(s)) = suffix

\* The letters that have a lower-case form different from themselves
LowerChar(c) ==
    CASE c = "M" -> "m"
      [] c = "D" -> "d"
      [] c = "P" -> "p"
      [] OTHER   -> c

\* String.prototype.toLowerCase
ToLowerCase(s) == [i \in 1..Len(s) |-> LowerChar(s[i])]

MdExt == <<"m", "d">>
DotMd == <<".", "m", "d">>

-----------------------------------------------------------------------------
(* TFile: the host's view of a path *)

\* TFile.name: the part of the path after the last '/'
FileName(path) == SubSeq(path, LastIndexOf(path, "/") + 1, Len(path))

\* TFile.parent.path: the part of the path before the last '/' (empty: root)
ParentPath(path) == SubSeq(path, 1, LastIndexOf(path, "/") - 1)

\* TFile.extension: the part of the name after its last '.', empty when the
\* name has no '.' or ends with it
Extension(path) ==
    LET name == FileName(path)
        d    == LastIndexOf(name, ".")
    IN  IF d = 0 THEN <<>> ELSE SubSeq(name, d + 1, Len(name))

\* TFile.basename: the name without the extension and its '.'
BaseName(path) ==
    LET name == FileName(path)
    IN  IF Extension(path) = <<>> THEN name
        ELSE SubSeq(name, 1, Len(name) - Len(Extension(path)) - 1)

-----------------------------------------------------------------------------
(* FileNoteOperations.getNotePath *)

\* A replace that cuts at the first '.' of the path, /\..+$/ : the mutant of
\* ExtRegexMatch
ExtRegexMatchFirstDot(s) ==
    LET hits == {i \in 1..Len(s) : s[i] = "." /\ i < Len(s)}
    IN  IF hits = {} THEN 0
        ELSE CHOOSE i \in hits : \A k \in hits : i <= k

\* The match of /\.[^.]+$/ in s: the index of a '.' that is followed, up to
\* the end of the string, by one or more characters none of which is a '.';
\* 0 when the expression does not match.  [^.] has no other exclusion: it
\* matches '/' as well.
ExtRegexMatch(s) ==
    LET hits == {i \in 1..Len(s) :
                    /\ s[i] = "."
                    /\ i < Len(s)
                    /\ \A j \in (i+1)..Len(s) : s[j] # "."}
    IN  IF hits = {} THEN 0
        ELSE CHOOSE i \in hits : \A k \in hits : i <= k

\* file.path.replace(/\.[^.]+$/, '.md')
GetNotePath(path) ==
    LET m == ExtRegexMatch(path)
    IN  IF m = 0 THEN path ELSE SubSeq(path, 1, m - 1) \o DotMd

-----------------------------------------------------------------------------
(* The vault *)

F_a_mp4   == <<"a", ".", "m", "p", "4">>
F_a_pdf   == <<"a", ".", "p", "d", "f">>
F_a_md    == <<"a", ".", "m", "d">>
F_R       == <<"R">>
F_dv_R    == <<"d", ".", "v", "/", "R">>
F_d_md    == <<"d", ".", "m", "d">>
F_dv_c_mp4 == <<"d", ".", "v", "/", "c", ".", "m", "p", "4">>
F_dv_c_md  == <<"d", ".", "v", "/", "c", ".", "m", "d">>
D_dv      == <<"d", ".", "v">>

\* vault.getFiles(): the files the vault may hold, in the host's order
FileOrder == <<F_a_mp4, F_a_pdf, F_a_md, F_R, F_dv_R, F_d_md, F_dv_c_mp4, F_dv_c_md>>

Universe == {FileOrder[i] : i \in 1..Len(FileOrder)}

\* The folders a folder command can be invoked on
Folders == {D_dv}

\* vault.getAbstractFileByPath(path): "none" stands for null
GetAbstractFileByPath(v, path) == IF path \in DOMAIN v THEN v[path] ELSE "none"

\* vault.getFiles(): every TFile of the vault
GetFiles(v) == SelectSeq(FileOrder, LAMBDA p : v[p] = "file")

-----------------------------------------------------------------------------
(* FileNotePlugin: eligibility, extensions, exclusion *)

\* EXCLUDED_EXTENSIONS
ExcludedExtensions ==
    {<<"m", "d">>, <<"c", "a", "n", "v", "a", "s">>, <<"b", "a", "s", "e">>}

\* isEligibleFile(file), for a TFile
IsEligibleFile(path) == ToLowerCase(Extension(path)) \notin ExcludedExtensions

\* String.prototype.split(','): the maximal comma-free pieces, in order
RECURSIVE SplitComma(_)
SplitComma(s) ==
    IF \A i \in 1..Len(s) : s[i] # ","
    THEN <<s>>
    ELSE LET k == CHOOSE i \in 1..Len(s) :
                      s[i] = "," /\ \A j \in 1..(i-1) : s[j] # ","
         IN  <<SubSeq(s, 1, k - 1)>> \o SplitComma(SubSeq(s, k + 1, Len(s)))

\* String.prototype.trim, the white space being ' '
RECURSIVE Trim(_)
Trim(s) ==
    IF s = <<>> THEN s
    ELSE IF Head(s) = " " THEN Trim(Tail(s))
    ELSE IF s[Len(s)] = " " THEN Trim(SubSeq(s, 1, Len(s) - 1))
    ELSE s

\* the parse with its filter on 'md' left out: the mutant of ParseExtensions
ParseExtensionsKeepMd(str) ==
    LET pieces == SplitComma(str)
        mapped == [i \in 1..Len(pieces) |-> ToLowerCase(Trim(pieces[i]))]
        kept   == SelectSeq(mapped, LAMBDA e : Len(e) > 0)
    IN  {kept[i] : i \in 1..Len(kept)}

\* getExtensions when the cache is empty
\* .split(',').map(ext => ext.trim().toLowerCase())
\* .filter(ext => ext.length > 0 && ext !== 'md'), then new Set
ParseExtensions(str) ==
    LET pieces == SplitComma(str)
        mapped == [i \in 1..Len(pieces) |-> ToLowerCase(Trim(pieces[i]))]
        kept   == SelectSeq(mapped, LAMBDA e : Len(e) > 0 /\ e # MdExt)
    IN  {kept[i] : i \in 1..Len(kept)}

\* this.cachedExtensions: null, or the Set.  History: the string the Set was
\* parsed from, and how many times the cache has been set to null.
NullCache == [isNull |-> TRUE, exts |-> {}, from |-> <<>>, inval |-> 0]

\* cachedExtensions after a getExtensions call
CacheAfterGet(cache, str) ==
    IF cache.isNull
    THEN [cache EXCEPT !.isNull = FALSE, !.exts = ParseExtensions(str),
                       !.from = str]
    ELSE cache

\* what getExtensions returns
GetExtensions(cache, str) == CacheAfterGet(cache, str).exts

\* startsWith(folder), the '/' left out: the mutant of IsInExcludedFolder
IsInExcludedFolderNoSlash(folders, filePath) ==
    \E k \in 1..Len(folders) : StartsWith(filePath, folders[k])

\* isInExcludedFolder(filePath)
IsInExcludedFolder(folders, filePath) ==
    \E k \in 1..Len(folders) : StartsWith(filePath, folders[k] \o <<"/">>)

\* shouldCreateNoteFor(file), for a TFile; exts is what getExtensions returns
ShouldCreateNoteFor(path, exts) ==
    /\ IsEligibleFile(path)
    /\ ToLowerCase(Extension(path)) \in exts
    /\ path \notin excludedFilesSet
    /\ ~IsInExcludedFolder(excludedFolders, path)

\* new Set(array)
SetOf(list) == {list[i] : i \in 1..Len(list)}

-----------------------------------------------------------------------------
(* FileNoteOperations: the batch engine *)

IdleBatch ==
    [kind |-> "none", files |-> <<>>, i |-> 1, success |-> 0, skipped |-> 0,
     failed |-> 0, phase |-> "idle",
     \* history: the indices handled, the indices a storage mutation was
     \* issued for, the rejections the call has seen
     visited |-> <<>>, attempts |-> <<>>, rejected |-> 0,
     \* history: the call repeats the previous createFileNotes call (same
     \* list, no note deleted since that call began), which ended with
     \* prevFailed failures
     repeat |-> FALSE, prevFailed |-> 0,
     \* history: for a create, the vault files that met the four eligibility
     \* conditions, read from the settings themselves, when the command ran;
     \* for a remove, the notes the confirmation dialog listed
     expected |-> <<>>]

\* The for loop of createFileNotes / removeFileNotes, run from file b.i until
\* it awaits a storage operation (phase "await") or returns (phase "done").
\* A skipped file is followed by the next one without yielding.
\* An engine that never takes the skip branch: the mutant of SkipFile
SkipFileNever(kind, found) == FALSE

\* if (exists) { skipped++; continue; } in createFileNotes,
\* if (!mdFile || !(mdFile instanceof TFile)) { skipped++; continue; } in
\* removeFileNotes
SkipFile(kind, found) ==
    IF kind = "create" THEN found # "none" ELSE found # "file"

RECURSIVE Advance(_, _)
Advance(b, v) ==
    IF b.i > Len(b.files) THEN [b EXCEPT !.phase = "done"]
    ELSE LET mdPath == GetNotePath(b.files[b.i])
             found  == GetAbstractFileByPath(v, mdPath)
             skip   == SkipFile(b.kind, found)
         IN  IF skip
             THEN Advance([b EXCEPT !.skipped = @ + 1, !.i = @ + 1,
                                    !.visited = Append(@, b.i)], v)
             ELSE [b EXCEPT !.phase = "await",
                            !.visited = Append(@, b.i),
                            !.attempts = Append(@, b.i)]

\* The catch block of the loop dropped: the rejection ends the call
OnStorageFailureThrow(b, v) == [b EXCEPT !.phase = "thrown"]

\* catch (error) { console.error(...); failed++; } and the next iteration
OnStorageFailure(b, v) ==
    Advance([b EXCEPT !.failed = @ + 1, !.i = @ + 1], v)

\* success++ and the next iteration
OnStorageSuccess(b, v) ==
    Advance([b EXCEPT !.success = @ + 1, !.i = @ + 1], v)

\* The storage operation a batch in phase "await" has issued
BatchOp(b) ==
    [op    |-> IF b.kind = "create" THEN "create" ELSE "delete",
     path  |-> GetNotePath(b.files[b.i]),
     src   |-> b.files[b.i],
     owner |-> "batch"]

\* inflight after the batch b has been started or resumed
WithBatchOp(fl, b) == IF b.phase = "await" THEN Append(fl, BatchOp(b)) ELSE fl

\* createFileNotes(files) / removeFileNotes(files) up to its first await
StartBatch(kind, files, expected, v) ==
    Advance([IdleBatch EXCEPT
                !.kind = kind, !.files = files, !.expected = expected,
                !.repeat = (kind = "create" /\ hist.valid /\ hist.files = files
                            /\ ~hist.del),
                !.prevFailed = hist.failed], v)

\* history: the previous createFileNotes call, when a batch starts or ends
HistAtStart(kind, files) ==
    IF kind = "create"
    THEN [valid |-> FALSE, files |-> files, failed |-> 0, del |-> FALSE]
    ELSE hist

HistAtEnd(h, b) ==
    IF b.kind = "create" /\ b.phase = "done"
    THEN [h EXCEPT !.valid = TRUE, !.failed = b.failed]
    ELSE h

\* getExistingNotes(files): the notes that exist, as paths
GetExistingNotes(files, v) ==
    LET mapped == [i \in 1..Len(files) |-> GetNotePath(files[i])]
    IN  SelectSeq(mapped, LAMBDA p : GetAbstractFileByPath(v, p) = "file")

\* Remove the k-th element of a sequence
RemoveAt(s, k) == SubSeq(s, 1, k - 1) \o SubSeq(s, k + 1, Len(s))

-----------------------------------------------------------------------------
(* Bounds of the vault model *)

\* user commands and external events per behaviour
MaxOps == 2
\* storage operations in flight at once
MaxInflight == 2
\* saveSettings calls awaiting saveData at once
MaxPending == 2

-----------------------------------------------------------------------------
(* The vault's 'create' event and the single-file operations *)

SingleOp(op, src) ==
    [op |-> op, path |-> GetNotePath(src), src |-> src, owner |-> "single"]

\* createFileNote(file): inflight after the call.  Nothing is issued when
\* something already exists at the note path.
AfterCreateFileNote(fl, file, v) ==
    IF GetAbstractFileByPath(v, GetNotePath(file)) # "none" THEN fl
    ELSE Append(fl, SingleOp("create", file))

\* removeFileNote(file): inflight after the call
AfterRemoveFileNote(fl, file, v) ==
    IF GetAbstractFileByPath(v, GetNotePath(file)) # "file" THEN fl
    ELSE Append(fl, SingleOp("delete", file))

\* The vault.on('create') handler of onload, for the new file at path:
\* autoCreate && shouldCreateNoteFor(file), then createFileNote(file, false).
\* getExtensions is reached only past isEligibleFile.
CreateEventCalls(path) == autoCreate /\ IsEligibleFile(path)

CacheAfterCreateEvent(path) ==
    IF CreateEventCalls(path) THEN CacheAfterGet(cachedExtensions, fileExtensions)
    ELSE cachedExtensions

\* A 'create' handler that is registered twice: createFileNote runs twice
\* before either call's vault.create has settled
InflightAfterCreateEventTwice(fl, path, v) ==
    IF /\ CreateEventCalls(path)
       /\ ShouldCreateNoteFor(path, GetExtensions(cachedExtensions, fileExtensions))
    THEN AfterCreateFileNote(AfterCreateFileNote(fl, path, v), path, v)
    ELSE fl

InflightAfterCreateEvent(fl, path, v) ==
    IF /\ CreateEventCalls(path)
       /\ ShouldCreateNoteFor(path, GetExtensions(cachedExtensions, fileExtensions))
    THEN AfterCreateFileNote(fl, path, v)
    ELSE fl

\* A file appears in the vault from outside (copied in, synced, created by
\* the user): the host adds it and fires 'create'
UserAddsFile(p) ==
    /\ ops < MaxOps
    /\ Len(inflight) < MaxInflight
    /\ vault[p] = "none"
    /\ vault' = [vault EXCEPT ![p] = "file"]
    /\ inflight' = InflightAfterCreateEvent(inflight, p, vault')
    /\ cachedExtensions' = CacheAfterCreateEvent(p)
    /\ ops' = ops + 1
    /\ UNCHANGED <<batch, hist, effects, modal>>
    /\ UNCHANGED <<fileExtensions, autoCreate, excludedFiles, excludedFolders,
                   excludedFilesSet, excludedFoldersSet, pendingSaves, togLog>>
    /\ UNCHANGED <<pureVars, probeVars, moreVars>>

\* File menu > Create file note (the menu is built for eligible files only)
CreateFileNote(f) ==
    /\ ops < MaxOps
    /\ Len(inflight) < MaxInflight
    /\ vault[f] = "file"
    /\ IsEligibleFile(f)
    /\ inflight' = AfterCreateFileNote(inflight, f, vault)
    /\ ops' = ops + 1
    /\ UNCHANGED <<vault, batch, hist, effects, modal>>
    /\ UNCHANGED settingsVars
    /\ UNCHANGED <<pureVars, probeVars, moreVars>>

\* File menu > Remove file note
RemoveFileNote(f) ==
    /\ ops < MaxOps
    /\ Len(inflight) < MaxInflight
    /\ vault[f] = "file"
    /\ IsEligibleFile(f)
    /\ inflight' = AfterRemoveFileNote(inflight, f, vault)
    /\ ops' = ops + 1
    /\ UNCHANGED <<vault, batch, hist, effects, modal>>
    /\ UNCHANGED settingsVars
    /\ UNCHANGED <<pureVars, probeVars, moreVars>>

-----------------------------------------------------------------------------
(* The host's storage: vault.create and vault.delete settle *)

\* The batch after its storage operation settled
BatchAfter(op, ok, v) ==
    IF op.owner # "batch" THEN batch
    ELSE IF ok THEN OnStorageSuccess(batch, v)
    ELSE OnStorageFailure([batch EXCEPT !.rejected = @ + 1], v)

Effect(op) == [op |-> op.op, src |-> op.src, path |-> op.path]

\* vault.create(path, content) resolves: the file is there, 'create' fires
StorageCreateResolves(k) ==
    /\ k \in 1..Len(inflight)
    /\ inflight[k].op = "create"
    /\ vault[inflight[k].path] = "none"
    /\ LET op == inflight[k]
           v2 == [vault EXCEPT ![op.path] = "file"]
           b2 == BatchAfter(op, TRUE, v2)
       IN  /\ vault' = v2
           /\ batch' = b2
           /\ inflight' = WithBatchOp(
                              InflightAfterCreateEvent(RemoveAt(inflight, k), op.path, v2),
                              IF op.owner = "batch" THEN b2 ELSE IdleBatch)
           /\ cachedExtensions' = CacheAfterCreateEvent(op.path)
           /\ hist' = HistAtEnd(hist, b2)
           /\ effects' = effects \cup {Effect(op)}
    /\ UNCHANGED <<modal, ops>>
    /\ UNCHANGED <<fileExtensions, autoCreate, excludedFiles, excludedFolders,
                   excludedFilesSet, excludedFoldersSet, pendingSaves, togLog>>
    /\ UNCHANGED <<pureVars, probeVars, moreVars>>

\* vault.delete(file) resolves: the file is gone (it may have been gone
\* before: then nothing changes)
StorageDeleteResolves(k) ==
    /\ k \in 1..Len(inflight)
    /\ inflight[k].op = "delete"
    /\ LET op   == inflight[k]
           was  == vault[op.path] = "file"
           v2   == [vault EXCEPT ![op.path] = "none"]
           b2   == BatchAfter(op, TRUE, v2)
       IN  /\ vault' = v2
           /\ batch' = b2
           /\ inflight' = WithBatchOp(RemoveAt(inflight, k),
                              IF op.owner = "batch" THEN b2 ELSE IdleBatch)
           /\ hist' = HistAtEnd([hist EXCEPT !.del = @ \/ was], b2)
           /\ effects' = IF was THEN effects \cup {Effect(op)} ELSE effects
    /\ UNCHANGED <<modal, ops>>
    /\ UNCHANGED settingsVars
    /\ UNCHANGED <<pureVars, probeVars, moreVars>>

\* vault.create or vault.delete rejects: the path is taken (create), or the
\* storage fails.  Nothing changes in the vault.
StorageRejects(k) ==
    /\ k \in 1..Len(inflight)
    /\ LET op == inflight[k]
           b2 == BatchAfter(op, FALSE, vault)
       IN  /\ batch' = b2
           /\ inflight' = WithBatchOp(RemoveAt(inflight, k),
                              IF op.owner = "batch" THEN b2 ELSE IdleBatch)
           /\ hist' = HistAtEnd(hist, b2)
    /\ UNCHANGED <<vault, effects, modal, ops>>
    /\ UNCHANGED settingsVars
    /\ UNCHANGED <<pureVars, probeVars, moreVars>>

-----------------------------------------------------------------------------
(* FileNotePlugin: the batch commands *)

\* A createFileNotes / removeFileNotes call starts (one call at a time)
BeginBatch(kind, files, expected) ==
    LET b2 == StartBatch(kind, files, expected, vault)
    IN  /\ batch' = b2
        /\ inflight' = WithBatchOp(inflight, b2)
        /\ hist' = HistAtEnd(HistAtStart(kind, files), b2)

BatchSlotFree == batch.phase # "await" /\ Len(inflight) < MaxInflight

\* createAllFileNotes() when scope is <<>>, createFileNotesInFolder(folder)
\* when scope is folder.path + '/'
\* The four eligibility conditions of a candidate file, read from the
\* settings: extension not reserved, extension configured, path not in the
\* excluded-files list, path under no excluded folder
MeetsConditions(path) ==
    /\ ToLowerCase(Extension(path)) \notin ExcludedExtensions
    /\ ToLowerCase(Extension(path)) \in ParseExtensions(fileExtensions)
    /\ \A k \in 1..Len(excludedFiles) : excludedFiles[k] # path
    /\ \A k \in 1..Len(excludedFolders) :
           ~StartsWith(path, excludedFolders[k] \o <<"/">>)

\* The command without its test of getExtensions().size
CreateNotesCommandUnchecked(scope) ==
    /\ ops < MaxOps
    /\ BatchSlotFree
    /\ cachedExtensions' = CacheAfterGet(cachedExtensions, fileExtensions)
    /\ LET exts == GetExtensions(cachedExtensions, fileExtensions)
       IN  BeginBatch("create",
                SelectSeq(GetFiles(vault),
                          LAMBDA f : StartsWith(f, scope)
                                     /\ ShouldCreateNoteFor(f, exts)),
                SelectSeq(GetFiles(vault),
                          LAMBDA f : StartsWith(f, scope)
                                     /\ MeetsConditions(f)))
    /\ UNCHANGED notices
    /\ ops' = ops + 1
    /\ UNCHANGED <<vault, effects, modal>>
    /\ UNCHANGED <<fileExtensions, autoCreate, excludedFiles, excludedFolders,
                   excludedFilesSet, excludedFoldersSet, pendingSaves, togLog>>
    /\ UNCHANGED <<pureVars, probeVars, restVars>>

CreateNotesCommand(scope) ==
    /\ ops < MaxOps
    /\ BatchSlotFree
    /\ cachedExtensions' = CacheAfterGet(cachedExtensions, fileExtensions)
    /\ LET exts == GetExtensions(cachedExtensions, fileExtensions)
       IN  IF exts = {}
           THEN UNCHANGED <<batch, inflight, hist>>
           ELSE BeginBatch("create",
                    SelectSeq(GetFiles(vault),
                              LAMBDA f : StartsWith(f, scope)
                                         /\ ShouldCreateNoteFor(f, exts)),
                    SelectSeq(GetFiles(vault),
                              LAMBDA f : StartsWith(f, scope)
                                         /\ MeetsConditions(f)))
    /\ notices' = IF GetExtensions(cachedExtensions, fileExtensions) = {}
                  THEN notices + 1 ELSE notices
    /\ ops' = ops + 1
    /\ UNCHANGED <<vault, effects, modal>>
    /\ UNCHANGED <<fileExtensions, autoCreate, excludedFiles, excludedFolders,
                   excludedFilesSet, excludedFoldersSet, pendingSaves, togLog>>
    /\ UNCHANGED <<pureVars, probeVars, restVars>>

CreateAllFileNotes == CreateNotesCommand(<<>>)

CreateFileNotesInFolder(folder) == CreateNotesCommand(folder \o <<"/">>)

ClosedModal == [open |-> FALSE, files |-> <<>>, notes |-> <<>>]

\* A dialog that opens whatever getExistingNotes returns
ConfirmAndRemoveAlways(files) ==
    [open |-> TRUE, files |-> files, notes |-> GetExistingNotes(files, vault)]

\* confirmAndRemoveFileNotes(files, emptyMessage): the modal after the call
ConfirmAndRemoveFileNotes(files) ==
    LET notesToDelete == GetExistingNotes(files, vault)
    IN  IF Len(notesToDelete) = 0 THEN modal
        ELSE [open |-> TRUE, files |-> files, notes |-> notesToDelete]

\* removeAllFileNotes() when scope is <<>>, removeFileNotesInFolder(folder)
\* when scope is folder.path + '/'
RemoveNotesCommand(scope) ==
    /\ ops < MaxOps
    /\ ~modal.open
    /\ modal' = ConfirmAndRemoveFileNotes(
                    SelectSeq(GetFiles(vault),
                              LAMBDA f : StartsWith(f, scope) /\ IsEligibleFile(f)))
    /\ ops' = ops + 1
    /\ UNCHANGED <<vault, inflight, batch, hist, effects>>
    /\ UNCHANGED settingsVars
    /\ UNCHANGED <<pureVars, probeVars, moreVars>>

RemoveAllFileNotes == RemoveNotesCommand(<<>>)

RemoveFileNotesInFolder(folder) == RemoveNotesCommand(folder \o <<"/">>)

\* ConfirmDeleteModal: the Delete button: close(), then onConfirm(), which
\* calls removeFileNotes(files)
ModalConfirm ==
    /\ modal.open
    /\ BatchSlotFree
    /\ modal' = ClosedModal
    /\ BeginBatch("remove", modal.files, modal.notes)
    /\ UNCHANGED <<vault, effects, ops>>
    /\ UNCHANGED settingsVars
    /\ UNCHANGED <<pureVars, probeVars, moreVars>>

\* ConfirmDeleteModal: the Cancel button (or Escape): close()
ModalCancel ==
    /\ modal.open
    /\ modal' = ClosedModal
    /\ UNCHANGED <<vault, inflight, batch, hist, effects, ops>>
    /\ UNCHANGED settingsVars
    /\ UNCHANGED <<pureVars, probeVars, moreVars>>

-----------------------------------------------------------------------------
(* FileNotePlugin: settings that change while the plugin runs *)

\* settings.excludedFiles / excludedFolders after a toggle...Exclusion call;
\* seen is the Set the duplicate check reads
ToggledList(list, seen, path, exclude) ==
    IF exclude
    THEN IF path \notin seen THEN Append(list, path) ELSE list
    ELSE SelectSeq(list, LAMBDA p : p # path)

\* history: the last two toggle calls, each with the list it found
Logged(kind, path, exclude, before) ==
    LET entry == [kind |-> kind, path |-> path, exclude |-> exclude,
                  before |-> before]
    IN  IF togLog = <<>> THEN <<entry>> ELSE <<togLog[Len(togLog)], entry>>

\* toggleFileExclusion(file, exclude) up to its await of saveSettings
ToggleFileExclusion(f, exclude) ==
    /\ ops < MaxOps
    /\ pendingSaves < MaxPending
    /\ vault[f] = "file"
    /\ IsEligibleFile(f)
    /\ excludedFiles' = ToggledList(excludedFiles, excludedFilesSet, f, exclude)
    /\ togLog' = Logged("file", f, exclude, excludedFiles)
    /\ pendingSaves' = pendingSaves + 1
    /\ ops' = ops + 1
    /\ UNCHANGED <<vault, inflight, batch, hist, effects, modal>>
    /\ UNCHANGED <<fileExtensions, autoCreate, excludedFolders,
                   excludedFilesSet, excludedFoldersSet, cachedExtensions>>
    /\ UNCHANGED <<pureVars, probeVars, moreVars>>

\* toggleFolderExclusion(folder, exclude) up to its await of saveSettings
ToggleFolderExclusion(folder, exclude) ==
    /\ ops < MaxOps
    /\ pendingSaves < MaxPending
    /\ excludedFolders' =
          ToggledList(excludedFolders, excludedFoldersSet, folder, exclude)
    /\ togLog' = Logged("folder", folder, exclude, excludedFolders)
    /\ pendingSaves' = pendingSaves + 1
    /\ ops' = ops + 1
    /\ UNCHANGED <<vault, inflight, batch, hist, effects, modal>>
    /\ UNCHANGED <<fileExtensions, autoCreate, excludedFiles,
                   excludedFilesSet, excludedFoldersSet, cachedExtensions>>
    /\ UNCHANGED <<pureVars, probeVars, moreVars>>

\* saveSettings() past its await of saveData: the cache is dropped and
\* rebuildExclusionSets() runs
SaveSettingsCompletes ==
    /\ pendingSaves > 0
    /\ pendingSaves' = pendingSaves - 1
    /\ cachedExtensions' = [NullCache EXCEPT !.inval = cachedExtensions.inval + 1]
    /\ excludedFilesSet' = SetOf(excludedFiles)
    /\ excludedFoldersSet' = SetOf(excludedFolders)
    /\ UNCHANGED <<fileExtensions, autoCreate, excludedFiles, excludedFolders,
                   togLog>>
    /\ UNCHANGED vaultVars
    /\ UNCHANGED <<pureVars, probeVars, moreVars>>

-----------------------------------------------------------------------------
(* Spec: the vault, the storage and the commands *)

S_mp4     == <<"m", "p", "4">>
S_mp4_pdf == <<"m", "p", "4", ",", "p", "d", "f">>

\* The settings loadSettings may find; the Sets are rebuilt from the arrays
InitSettings ==
    /\ fileExtensions = S_mp4_pdf
    /\ autoCreate \in BOOLEAN
    /\ excludedFiles = <<>>
    /\ excludedFolders = <<>>
    /\ excludedFilesSet = SetOf(excludedFiles)
    /\ excludedFoldersSet = SetOf(excludedFolders)
    /\ cachedExtensions = NullCache
    /\ pendingSaves = 0
    /\ togLog = <<>>

NoQuery == [asked |-> FALSE, path |-> <<>>, folders |-> <<>>, result |-> FALSE]

NoExtResult ==
    [called |-> FALSE, exts |-> {}, str |-> <<>>, pending |-> 0, inval |-> 0,
     hit |-> FALSE, prev |-> {}]

\* The variables of SpecExcl and SpecExt that hold a query's answer, at rest
ProbeIdle == query = NoQuery /\ extResult = NoExtResult

\* The debounce timer when no call is pending
NoTimer == [armed |-> FALSE, left |-> 0]

NoBurst == [events |-> 0, passes |-> 0, since |-> 0]

NoPass == [bit |-> 0, kind |-> "none", by |-> "none", unloaded |-> FALSE]

\* HiddenFilesManager and the explorer, out of play
HiddenIdle ==
    /\ hideFilesWithNotes = FALSE
    /\ hasHiddenFiles = FALSE
    /\ items = [p \in Universe \cup Folders |-> "none"]
    /\ explorer = FALSE
    /\ timer = NoTimer
    /\ burst = NoBurst
    /\ passLog = NoPass
    /\ unloaded = FALSE
    /\ layoutReady = FALSE

\* The settings tab while it is not displayed
ClosedTab == [open |-> FALSE, on |-> FALSE, disabled |-> FALSE]

\* DEFAULT_SETTINGS.notesFolder and .addSourceFrontmatter, tab not displayed
FolderIdle ==
    /\ notesFolder = <<>>
    /\ addSourceFrontmatter = FALSE
    /\ tab = ClosedTab

\* The remaining variables, at rest
MoreIdle == notices = 0 /\ HiddenIdle /\ FolderIdle

IdleHist == [valid |-> FALSE, files |-> <<>>, failed |-> 0, del |-> FALSE]

\* The vaults a behaviour starts from: these sources are there, every other
\* file of the universe (a second source, the notes) may or may not be
InitialSources == {F_a_mp4, F_R, F_dv_R, F_dv_c_mp4}

InitVault ==
    /\ vault \in [Universe -> {"none", "file"}]
    /\ \A p \in InitialSources : vault[p] = "file"
    /\ inflight = <<>>
    /\ batch = IdleBatch
    /\ hist = IdleHist
    /\ effects = {}
    /\ modal = ClosedModal
    /\ ops = 0

\* The variables of SpecPath, at rest
PathIdle == pathIn = <<>> /\ pathOut = <<>> /\ pathDone = FALSE

\* The variables of SpecContent, at rest
ContentIdle ==
    tplIn = <<>> /\ nameIn = <<>> /\ contentOut = <<>> /\ contentDone = FALSE

Init ==
    InitVault /\ InitSettings /\ PathIdle /\ ContentIdle /\ ProbeIdle /\ MoreIdle

Next ==
    \/ \E p \in Universe : UserAddsFile(p)
    \/ \E f \in Universe : CreateFileNote(f)
    \/ \E f \in Universe : RemoveFileNote(f)
    \/ \E k \in 1..MaxInflight : StorageCreateResolves(k)
    \/ \E k \in 1..MaxInflight : StorageDeleteResolves(k)
    \/ \E k \in 1..MaxInflight : StorageRejects(k)
    \/ CreateAllFileNotes
    \/ \E d \in Folders : CreateFileNotesInFolder(d)
    \/ RemoveAllFileNotes
    \/ \E d \in Folders : RemoveFileNotesInFolder(d)
    \/ ModalConfirm
    \/ ModalCancel
    \/ \E f \in Universe, e \in BOOLEAN : ToggleFileExclusion(f, e)
    \/ SaveSettingsCompletes

Spec == Init /\ [][Next]_vars

-----------------------------------------------------------------------------
(* SpecPath: getNotePath applied to every vault path up to MaxPathLen *)

PathChars == {"m", "d", "M", ".", "/"}

\* The components of a path, as the set of <<first, last>> index pairs
Components(p) ==
    {<<i, j>> \in (1..Len(p)) \X (1..Len(p)) :
        /\ i <= j
        /\ \A k \in i..j : p[k] # "/"
        /\ (i = 1 \/ p[i-1] = "/")
        /\ (j = Len(p) \/ p[j+1] = "/")}

\* A path the vault can hold: not empty, no empty component, no component
\* that starts with '.' (the host does not index dot files) or ends with it
ValidPath(p) ==
    /\ Len(p) > 0
    /\ p[1] # "/" /\ p[Len(p)] # "/"
    /\ \A i \in 1..(Len(p) - 1) : ~(p[i] = "/" /\ p[i+1] = "/")
    /\ \A c \in Components(p) : p[c[1]] # "." /\ p[c[2]] # "."

PathInputs == {p \in SeqsUpTo(PathChars, MaxPathLen) : ValidPath(p)}

\* The vault and the settings, at rest
VaultIdle ==
    /\ vault = [p \in Universe |-> "none"]
    /\ inflight = <<>>
    /\ batch = IdleBatch
    /\ hist = IdleHist
    /\ effects = {}
    /\ modal = ClosedModal
    /\ ops = 0

SettingsIdle ==
    /\ fileExtensions = S_mp4
    /\ autoCreate = FALSE
    /\ excludedFiles = <<>>
    /\ excludedFolders = <<>>
    /\ excludedFilesSet = {}
    /\ excludedFoldersSet = {}
    /\ cachedExtensions = NullCache
    /\ pendingSaves = 0
    /\ togLog = <<>>
    /\ ProbeIdle
    /\ MoreIdle

InitPath ==
    /\ pathIn \in PathInputs
    /\ pathOut = <<>>
    /\ pathDone = FALSE
    /\ ContentIdle
    /\ VaultIdle
    /\ SettingsIdle

\* getNotePath(file) for the file at pathIn
ApplyGetNotePath ==
    /\ ~pathDone
    /\ pathOut' = GetNotePath(pathIn)
    /\ pathDone' = TRUE
    /\ UNCHANGED pathIn
    /\ UNCHANGED <<contentVars, vaultVars, settingsVars, probeVars, moreVars>>

NextPath == ApplyGetNotePath

SpecPath == InitPath /\ [][NextPath]_vars

-----------------------------------------------------------------------------
(* C3: for every source file whose name has an extension and that is not   *)
(* itself a note, getNotePath returns a path that differs from the source  *)
(* path, ends in ".md" and sits beside the source: same folder, same base  *)
(* name, only the final ".<ext>" of the file name replaced.                *)

IsNoteFile(path) == ToLowerCase(Extension(path)) = MdExt

C3_NotePathBesideSource ==
    (pathDone /\ Extension(pathIn) # <<>> /\ ~IsNoteFile(pathIn)) =>
        /\ pathOut # pathIn
        /\ EndsWith(pathOut, DotMd)
        /\ ParentPath(pathOut) = ParentPath(pathIn)
        /\ BaseName(pathOut) = BaseName(pathIn)
        /\ Extension(pathOut) = MdExt
        /\ pathOut =
             SubSeq(pathIn, 1, Len(pathIn) - Len(Extension(pathIn)) - 1) \o DotMd

\* a source with an extension inside a folder whose name has a '.' too
C3_Witness ==
    /\ pathDone
    /\ Extension(pathIn) # <<>>
    /\ ~IsNoteFile(pathIn)
    /\ LastIndexOf(pathIn, "/") > 0
    /\ LastIndexOf(ParentPath(pathIn), ".") > 0

-----------------------------------------------------------------------------
(* C1: createFileNotes and removeFileNotes handle every file of the list   *)
(* exactly once, in list order, one storage operation at a time; every     *)
(* storage failure is counted in failed and the loop goes on; the call     *)
(* never throws; at most one storage mutation is attempted per file; and   *)
(* on return success + skipped + failed = number of input files.           *)

\* 1, 2, ..., n
Iota(n) == [k \in 1..n |-> k]

StrictlyIncreasing(s) == \A k \in 1..(Len(s) - 1) : s[k] < s[k + 1]

BatchOpsInFlight == {k \in 1..Len(inflight) : inflight[k].owner = "batch"}

C1_BatchNeverAborts ==
    /\ batch.phase \in {"idle", "await", "done"}
    /\ batch.visited = Iota(Len(batch.visited))
    /\ StrictlyIncreasing(batch.attempts)
    /\ \A k \in 1..Len(batch.attempts) : batch.attempts[k] \in 1..Len(batch.files)
    /\ batch.failed = batch.rejected
    /\ Cardinality(BatchOpsInFlight) = IF batch.phase = "await" THEN 1 ELSE 0
    /\ batch.phase = "await" =>
          /\ batch.i = Len(batch.visited)
          /\ batch.attempts[Len(batch.attempts)] = batch.i
          /\ batch.success + batch.failed + 1 = Len(batch.attempts)
          /\ batch.success + batch.skipped + batch.failed + 1 = batch.i
    /\ batch.phase = "done" =>
          /\ batch.visited = Iota(Len(batch.files))
          /\ batch.success + batch.failed = Len(batch.attempts)
          /\ batch.success + batch.skipped + batch.failed = Len(batch.files)

\* a call that returned after a failure, a success and a skip
C1_Witness ==
    /\ batch.phase = "done"
    /\ batch.failed > 0
    /\ batch.success > 0
    /\ batch.skipped > 0

-----------------------------------------------------------------------------
(* C2: source files are read-only for the system: no operation deletes a   *)
(* file that is not a note, so every source file the vault held is still   *)
(* there, whatever commands have run (files without an extension, which    *)
(* removeAllFileNotes takes as eligible, included).                        *)

C2_SourcesArePreserved ==
    /\ \A e \in effects : e.op = "delete" => IsNoteFile(e.path)
    /\ \A p \in InitialSources : vault[p] = "file"

-----------------------------------------------------------------------------
(* C6: batch create is idempotent: a createFileNotes call that repeats the *)
(* previous call (same list, no note removed in between) returns           *)
(* success = 0 and skipped = N and changes nothing in the vault.           *)

RepeatedCreateReturned ==
    /\ batch.kind = "create"
    /\ batch.phase = "done"
    /\ batch.repeat
    /\ ~hist.del

SecondCallSkippedAll ==
    /\ batch.success = 0
    /\ batch.skipped = Len(batch.files)
    /\ batch.attempts = <<>>

-----------------------------------------------------------------------------
(* C7: the files createAllFileNotes hands to the batch engine are exactly  *)
(* the vault files that meet the four conditions: extension not in         *)
(* {md, canvas, base}, extension in the configured set, path not in the    *)
(* excluded-files list, path under no excluded folder.                     *)

C7_HandedFilesMeetConditions ==
    batch.kind = "create" => batch.files = batch.expected

-----------------------------------------------------------------------------
(* C4: for every source file whose name has no extension, in whatever      *)
(* folder it lies (a folder whose name has a '.' included), getNotePath    *)
(* returns the source path unchanged.                                      *)

C4_NoExtensionPathUnchanged ==
    (pathDone /\ Extension(pathIn) = <<>>) => pathOut = pathIn

-----------------------------------------------------------------------------
(* FileNoteOperations.getNoteContent *)

\* {{filename}}
Placeholder == <<"{", "{", "f", "i", "l", "e", "n", "a", "m", "e", "}", "}">>

\* /\{\{filename\}\}/ matches in t at index i
PlaceholderAt(t, i) ==
    /\ i + Len(Placeholder) - 1 <= Len(t)
    /\ SubSeq(t, i, i + Len(Placeholder) - 1) = Placeholder

\* The text String.prototype.replace inserts for the replacement string r,
\* read from index k on: in a replacement string $$ stands for '$', $& for
\* the matched text, $` for the text before the match and $' for the text
\* after it; the expression has no capture group, so $1..$99 and $<name>
\* stand for themselves.
RECURSIVE Substitution(_, _, _, _, _)
Substitution(r, k, before, matched, after) ==
    IF k > Len(r) THEN <<>>
    ELSE IF r[k] = "$" /\ k < Len(r) /\ r[k + 1] \in {"$", "&", "`", "'"}
    THEN (CASE r[k + 1] = "$" -> <<"$">>
            [] r[k + 1] = "&" -> matched
            [] r[k + 1] = "`" -> before
            [] r[k + 1] = "'" -> after)
         \o Substitution(r, k + 2, before, matched, after)
    ELSE <<r[k]>> \o Substitution(r, k + 1, before, matched, after)

\* template.replace(/\{\{filename\}\}/g, name), read from index i on
RECURSIVE ReplaceAll(_, _, _)
ReplaceAll(t, i, name) ==
    IF i > Len(t) THEN <<>>
    ELSE IF PlaceholderAt(t, i)
    THEN Substitution(name, 1, SubSeq(t, 1, i - 1), Placeholder,
                      SubSeq(t, i + Len(Placeholder), Len(t)))
         \o ReplaceAll(t, i + Len(Placeholder), name)
    ELSE <<t[i]>> \o ReplaceAll(t, i + 1, name)

\* this.settings.noteTemplate.replace(/\{\{filename\}\}/g, file.name)
GetNoteContent(template, name) == ReplaceAll(template, 1, name)

-----------------------------------------------------------------------------
(* SpecContent: getNoteContent applied to templates and file names *)

\* pieces a template is put together from, and how many of them
MaxTemplatePieces == 3
\* longest file name
MaxNameLen == 2

TemplatePieces == {<<"#">>, <<" ">>, <<"{">>, <<"}">>, Placeholder}

RECURSIVE Concat(_)
Concat(ss) == IF ss = <<>> THEN <<>> ELSE Head(ss) \o Concat(Tail(ss))

Templates == {Concat(ps) : ps \in SeqsUpTo(TemplatePieces, MaxTemplatePieces)}

NameChars == {"r", ".", "$", "&", "'"}

ReportPdf == <<"r", "e", "p", "o", "r", "t", ".", "p", "d", "f">>

FileNames == (SeqsUpTo(NameChars, MaxNameLen) \ {<<>>}) \cup {ReportPdf}

InitContent ==
    /\ tplIn \in Templates
    /\ nameIn \in FileNames
    /\ contentOut = <<>>
    /\ contentDone = FALSE
    /\ PathIdle
    /\ VaultIdle
    /\ SettingsIdle

\* getNoteContent(file) for the file named nameIn under the template tplIn
ApplyGetNoteContent ==
    /\ ~contentDone
    /\ contentOut' = GetNoteContent(tplIn, nameIn)
    /\ contentDone' = TRUE
    /\ UNCHANGED <<tplIn, nameIn>>
    /\ UNCHANGED <<pathVars, vaultVars, settingsVars, probeVars, moreVars>>

NextContent == ApplyGetNoteContent

SpecContent == InitContent /\ [][NextContent]_vars

-----------------------------------------------------------------------------
(* C5: getNoteContent returns the template with every occurrence of        *)
(* {{filename}} replaced by the file's name taken verbatim, no character   *)
(* of the name being interpreted, and every other character of the         *)
(* template unchanged.                                                     *)

\* t with every occurrence of {{filename}} replaced by name as it is
RECURSIVE VerbatimReplace(_, _, _)
VerbatimReplace(t, i, name) ==
    IF i > Len(t) THEN <<>>
    ELSE IF PlaceholderAt(t, i)
    THEN name \o VerbatimReplace(t, i + Len(Placeholder), name)
    ELSE <<t[i]>> \o VerbatimReplace(t, i + 1, name)

C5_NameInsertedVerbatim ==
    contentDone => contentOut = VerbatimReplace(tplIn, 1, nameIn)

-----------------------------------------------------------------------------
(* SpecExcl: the exclusion lists, their Sets and isInExcludedFolder *)

D_A   == <<"A">>
D_A_B == <<"A", "/", "B">>
D_AB  == <<"A", "B">>

Q_A_B_c == <<"A", "/", "B", "/", "c", ".", "x">>
Q_A_c   == <<"A", "/", "c", ".", "x">>
Q_AB_c  == <<"A", "B", "/", "c", ".", "x">>
Q_c     == <<"c", ".", "x">>

\* The folders and files whose exclusion is toggled, the paths queried
ToggledFolders == {D_A, D_A_B, D_AB}
ToggledFiles == {F_a_mp4, F_dv_c_mp4}
QueriedPaths == {Q_A_B_c, Q_A_c, Q_AB_c, Q_c}

NoDuplicates(list) ==
    \A i, j \in 1..Len(list) : i # j => list[i] # list[j]

\* isInExcludedFolder(filePath), called
QueryIsInExcludedFolder(p) ==
    /\ query' = [asked |-> TRUE, path |-> p, folders |-> excludedFolders,
                 result |-> IsInExcludedFolder(excludedFolders, p)]
    /\ UNCHANGED extResult
    /\ UNCHANGED <<pureVars, vaultVars, settingsVars, moreVars>>

\* The lists loadSettings may find: without duplicates (callers keep them so)
InitExcl ==
    /\ excludedFiles \in {l \in SeqsUpTo(ToggledFiles, 1) : NoDuplicates(l)}
    /\ excludedFolders \in {l \in SeqsUpTo(ToggledFolders, 2) : NoDuplicates(l)}
    /\ excludedFilesSet = SetOf(excludedFiles)
    /\ excludedFoldersSet = SetOf(excludedFolders)
    /\ fileExtensions = S_mp4
    /\ autoCreate = FALSE
    /\ cachedExtensions = NullCache
    /\ pendingSaves = 0
    /\ togLog = <<>>
    /\ vault = [p \in Universe |-> "file"]
    /\ inflight = <<>>
    /\ batch = IdleBatch
    /\ hist = IdleHist
    /\ effects = {}
    /\ modal = ClosedModal
    /\ ops = 0
    /\ PathIdle
    /\ ContentIdle
    /\ ProbeIdle
    /\ MoreIdle

NextExcl ==
    \/ \E f \in ToggledFiles, e \in BOOLEAN : ToggleFileExclusion(f, e)
    \/ \E d \in ToggledFolders, e \in BOOLEAN : ToggleFolderExclusion(d, e)
    \/ SaveSettingsCompletes
    \/ \E p \in QueriedPaths : QueryIsInExcludedFolder(p)

SpecExcl == InitExcl /\ [][NextExcl]_vars

-----------------------------------------------------------------------------
(* C8: isInExcludedFolder(p) is true exactly when p lies in an excluded    *)
(* folder, at any depth: true for A/B/c.x when A or A/B is excluded, false *)
(* for AB/c.x when only A is, false for a file outside every excluded      *)
(* folder.                                                                 *)

\* The components of a path: the pieces between its '/'
RECURSIVE PathParts(_)
PathParts(p) ==
    IF LastIndexOf(p, "/") = 0 THEN <<p>>
    ELSE Append(PathParts(SubSeq(p, 1, LastIndexOf(p, "/") - 1)),
                SubSeq(p, LastIndexOf(p, "/") + 1, Len(p)))

\* folder is the parent of path, or the parent of its parent, ...
IsAncestorFolder(folder, path) ==
    LET a == PathParts(folder)
        b == PathParts(path)
    IN  Len(a) < Len(b) /\ SubSeq(b, 1, Len(a)) = a

C8_ExcludedIffUnderExcludedFolder ==
    query.asked =>
        (query.result <=>
            \E k \in 1..Len(query.folders) :
                IsAncestorFolder(query.folders[k], query.path))

\* a file two levels below the only excluded folder
C8_Witness ==
    /\ query.asked
    /\ query.path = Q_A_B_c
    /\ query.folders = <<D_A>>
    /\ query.result

-----------------------------------------------------------------------------
(* C9: over any sequence of toggleFileExclusion / toggleFolderExclusion    *)
(* calls, a second call before the first one's save has completed          *)
(* included: excluding a path already in the list inserts no duplicate;    *)
(* including a path that is absent leaves the list unchanged; and exclude  *)
(* then include, or include then exclude, of one path leaves the           *)
(* membership of every path as it was before the two calls.                *)

ListOf(kind) == IF kind = "file" THEN excludedFiles ELSE excludedFolders

LastToggle == togLog[Len(togLog)]

\* the call changed whether its path is a member
Flips(t) == t.exclude <=> (t.path \notin SetOf(t.before))

C9_TogglesKeepListsSound ==
    /\ NoDuplicates(excludedFiles)
    /\ NoDuplicates(excludedFolders)
    /\ (togLog # <<>> /\ ~LastToggle.exclude
            /\ LastToggle.path \notin SetOf(LastToggle.before))
          => ListOf(LastToggle.kind) = LastToggle.before
    /\ (Len(togLog) = 2 /\ togLog[1].kind = togLog[2].kind
            /\ togLog[1].path = togLog[2].path
            /\ togLog[1].exclude # togLog[2].exclude
            /\ Flips(togLog[1]))
          => SetOf(ListOf(togLog[2].kind)) = SetOf(togLog[1].before)


-----------------------------------------------------------------------------
(* SpecExt: the extensions setting, its saves and getExtensions *)

MaxExtTokens == 2

\* What the user may have typed between two commas
RawTokens ==
    {<<>>, <<" ", "p">>, <<"P", " ">>, <<"M", "d">>, <<"q">>,
     <<"p", " ", "q">>}

RECURSIVE JoinComma(_)
JoinComma(tokens) ==
    IF Len(tokens) = 1 THEN tokens[1]
    ELSE tokens[1] \o <<",">> \o JoinComma(Tail(tokens))

\* The fileExtensions strings loadSettings may find
ExtStrings ==
    {JoinComma(ts) : ts \in (SeqsUpTo(RawTokens, MaxExtTokens) \ {<<>>})}

E_P_md == <<" ", "P", ",", ",", "m", "d">>
E_q    == <<"q">>

\* What the user types into the "File extensions" field
EditValues == {<<>>, E_q, E_P_md}

\* The field's onChange(value), up to its await of saveSettings
SetFileExtensions(value) ==
    /\ ops < MaxOps
    /\ pendingSaves < MaxPending
    /\ fileExtensions' = value
    /\ pendingSaves' = pendingSaves + 1
    /\ ops' = ops + 1
    /\ UNCHANGED <<vault, inflight, batch, hist, effects, modal>>
    /\ UNCHANGED <<autoCreate, excludedFiles, excludedFolders,
                   excludedFilesSet, excludedFoldersSet, cachedExtensions,
                   togLog>>
    /\ UNCHANGED <<pureVars, query, moreVars>>
    /\ UNCHANGED extResult

\* getExtensions(), called.  History: what it returned, the string and the
\* number of saves still awaited at the call, whether the cache answered.
CallGetExtensions ==
    /\ cachedExtensions' = CacheAfterGet(cachedExtensions, fileExtensions)
    /\ extResult' =
          [called |-> TRUE,
           exts |-> GetExtensions(cachedExtensions, fileExtensions),
           str |-> fileExtensions,
           pending |-> pendingSaves,
           inval |-> cachedExtensions.inval,
           hit |-> ~cachedExtensions.isNull,
           prev |-> cachedExtensions.exts]
    /\ UNCHANGED <<fileExtensions, autoCreate, excludedFiles, excludedFolders,
                   excludedFilesSet, excludedFoldersSet, pendingSaves, togLog>>
    /\ UNCHANGED vaultVars
    /\ UNCHANGED <<pureVars, query, moreVars>>

InitExt ==
    /\ fileExtensions \in ExtStrings
    /\ autoCreate = FALSE
    /\ excludedFiles = <<>>
    /\ excludedFolders = <<>>
    /\ excludedFilesSet = {}
    /\ excludedFoldersSet = {}
    /\ cachedExtensions = NullCache
    /\ pendingSaves = 0
    /\ togLog = <<>>
    /\ ProbeIdle
    /\ MoreIdle
    /\ VaultIdle
    /\ PathIdle
    /\ ContentIdle

NextExt ==
    \/ \E v \in EditValues : SetFileExtensions(v)
    \/ SaveSettingsCompletes
    \/ CallGetExtensions

SpecExt == InitExt /\ [][NextExt]_vars

-----------------------------------------------------------------------------
(* C10 *)

\* The tokens of str: for each maximal comma-free stretch i..j, the lowercase
\* of what is left between its first and last non-blank character
TokensOf(str) ==
    {ToLowerCase(SubSeq(str, a, b)) :
        <<a, b>> \in {<<a, b>> \in (1..Len(str)) \X (1..Len(str)) :
            /\ a <= b
            /\ str[a] # " " /\ str[b] # " "
            /\ \A k \in a..b : str[k] # ","
            /\ \E i \in 1..a, j \in b..Len(str) :
                 /\ i = 1 \/ str[i - 1] = ","
                 /\ j = Len(str) \/ str[j + 1] = ","
                 /\ \A k \in i..(a - 1) : str[k] = " "
                 /\ \A k \in (b + 1)..j : str[k] = " "}}

DistinctTokensWithoutMd(str) == TokensOf(str) \ {MdExt}

-----------------------------------------------------------------------------
(* SpecEmpty: the create commands under extension settings that may parse  *)
(* to the empty set                                                        *)

E_blank  == <<" ", ",">>
E_Md     == <<"M", "d">>
E_md_sep == <<"m", "d", ",", " ">>

\* The fileExtensions strings loadSettings may find here
EmptyishStrings == {<<>>, E_blank, E_Md, E_md_sep, S_mp4}

\* What the user types into the "File extensions" field here
EmptyishEdits == {<<>>, E_Md, S_mp4}

InitEmpty ==
    /\ vault \in [Universe -> {"none", "file"}]
    /\ \A p \in InitialSources : vault[p] = "file"
    /\ \A p \in Universe \ (InitialSources \cup {F_a_md}) : vault[p] = "none"
    /\ inflight = <<>>
    /\ batch = IdleBatch
    /\ hist = IdleHist
    /\ effects = {}
    /\ modal = ClosedModal
    /\ ops = 0
    /\ fileExtensions \in EmptyishStrings
    /\ autoCreate = FALSE
    /\ excludedFiles = <<>>
    /\ excludedFolders = <<>>
    /\ excludedFilesSet = {}
    /\ excludedFoldersSet = {}
    /\ cachedExtensions = NullCache
    /\ pendingSaves = 0
    /\ togLog = <<>>
    /\ PathIdle
    /\ ContentIdle
    /\ ProbeIdle
    /\ MoreIdle

NextEmpty ==
    \/ CreateAllFileNotes
    \/ \E d \in Folders : CreateFileNotesInFolder(d)
    \/ \E v \in EmptyishEdits : SetFileExtensions(v)
    \/ SaveSettingsCompletes
    \/ CallGetExtensions
    \/ \E k \in 1..MaxInflight : StorageCreateResolves(k)
    \/ \E k \in 1..MaxInflight : StorageRejects(k)

SpecEmpty == InitEmpty /\ [][NextEmpty]_vars

-----------------------------------------------------------------------------
(* C11 *)

\* a step of createAllFileNotes or of createFileNotesInFolder
CreateCommandStep ==
    CreateAllFileNotes \/ \E d \in Folders : CreateFileNotesInFolder(d)

\* fileExtensions is empty, separators and blanks only, or md only
ConfiguredSetEmpty == DistinctTokensWithoutMd(fileExtensions) = {}

\* one notice, no storage operation issued, the batch engine not entered
OneNoticeNothingElse ==
    /\ notices' = notices + 1
    /\ UNCHANGED <<vault, inflight, batch, hist, effects>>

-----------------------------------------------------------------------------
(* C12: bulk removal is gated by the confirmation dialog.  The dialog is   *)
(* Open or Closed; Confirm closes it and starts the removal batch, once;   *)
(* Cancel closes it and starts nothing; a removal batch starts in no other *)
(* step, so no storage delete of a bulk removal is issued before Confirm;  *)
(* and when no note exists for the target files the command opens no       *)
(* dialog and deletes nothing.                                             *)

\* a createFileNotes / removeFileNotes call begins in this step
BatchBegins == batch.phase # "await" /\ batch' # batch

\* a step of removeAllFileNotes (scope <<>>) or removeFileNotesInFolder
RemoveCommandStep(scope) == RemoveNotesCommand(scope)

\* no eligible file under scope has a note
NoNoteUnder(scope) ==
    \A f \in Universe :
        (vault[f] = "file" /\ StartsWith(f, scope) /\ IsEligibleFile(f))
            => vault[GetNotePath(f)] # "file"

RemoveScopes == {<<>>} \cup {d \o <<"/">> : d \in Folders}

-----------------------------------------------------------------------------
(* HiddenFilesManager *)

\* HIDDEN_FILES_UPDATE_DELAY_MS, in ticks of the model's clock
DelayTicks == 2

\* The paths the explorer may hold an item for: files and folders
ItemPaths == Universe \cup Folders

\* path.replace(/\.[^.]+$/, '.md') in update()
ItemNotePath(path) == GetNotePath(path)

\* One iteration of the loop of update(): the item's marker afterwards
UpdatedItem(hide, path, mark, v) ==
    IF mark = "none" THEN "none"
    ELSE IF path = ItemNotePath(path) THEN mark
    ELSE IF hide /\ GetAbstractFileByPath(v, ItemNotePath(path)) # "none"
         THEN "hidden"
         ELSE "shown"

\* update(): the items and hasHiddenFiles afterwards, and how the call ended
Update(hide, has, expl, its, v) ==
    IF ~hide /\ ~has
    THEN [items |-> its, hasHidden |-> has, kind |-> "early"]
    ELSE IF ~expl
    THEN [items |-> its, hasHidden |-> has, kind |-> "no-explorer"]
    ELSE LET done == [p \in ItemPaths |-> UpdatedItem(hide, p, its[p], v)]
             hiddenCount ==
                 Cardinality({p \in ItemPaths :
                     /\ its[p] # "none"
                     /\ p # ItemNotePath(p)
                     /\ done[p] = "hidden"})
         IN  [items |-> done, hasHidden |-> hiddenCount > 0,
              kind |-> "complete"]

\* this.hiddenFiles.update(), called by `by`
RunUpdate(by) ==
    LET r == Update(hideFilesWithNotes, hasHiddenFiles, explorer, items, vault)
    IN  /\ items' = r.items
        /\ hasHiddenFiles' = r.hasHidden
        /\ passLog' = [bit |-> 1 - passLog.bit, kind |-> r.kind, by |-> by,
                       unloaded |-> unloaded]

\* A debounce that keeps the deadline of the first call of a burst
DebouncedUpdateNoReset(t) ==
    IF t.armed THEN t ELSE [armed |-> TRUE, left |-> DelayTicks]

\* debouncedUpdate(): debounce(cb, delay, true) restarts the delay on every
\* call
DebouncedUpdate(t) == [armed |-> TRUE, left |-> DelayTicks]

\* history: one more event, in the running burst or opening a new one
BurstAfterEvent ==
    IF timer.armed
    THEN [burst EXCEPT !.events = @ + 1, !.since = 0]
    ELSE [events |-> 1, passes |-> 0, since |-> 0]

\* The debounce part of the vault event handlers registered by onload; the
\* host drops the handlers when the plugin unloads
OnVaultEvent ==
    IF unloaded
    THEN UNCHANGED <<timer, burst>>
    ELSE /\ timer' = DebouncedUpdate(timer)
         /\ burst' = BurstAfterEvent

\* vault.on('create'): a file appears from outside; the explorer shows it
VaultCreateEvent(p) ==
    /\ ops < MaxOps
    /\ Len(inflight) < MaxInflight
    /\ vault[p] = "none"
    /\ vault' = [vault EXCEPT ![p] = "file"]
    /\ items' = IF explorer THEN [items EXCEPT ![p] = "shown"] ELSE items
    /\ IF unloaded
       THEN UNCHANGED <<inflight, cachedExtensions>>
       ELSE /\ inflight' = InflightAfterCreateEvent(inflight, p, vault')
            /\ cachedExtensions' = CacheAfterCreateEvent(p)
    /\ OnVaultEvent
    /\ ops' = ops + 1
    /\ UNCHANGED <<batch, hist, effects, modal>>
    /\ UNCHANGED <<fileExtensions, autoCreate, excludedFiles, excludedFolders,
                   excludedFilesSet, excludedFoldersSet, pendingSaves, togLog>>
    /\ UNCHANGED <<hideFilesWithNotes, hasHiddenFiles, explorer, passLog,
                   unloaded, layoutReady>>
    /\ UNCHANGED <<pureVars, probeVars, notices, folderVars>>

\* vault.on('delete'): a file is deleted from outside; its item goes
VaultDeleteEvent(p) ==
    /\ ops < MaxOps
    /\ vault[p] = "file"
    /\ vault' = [vault EXCEPT ![p] = "none"]
    /\ items' = [items EXCEPT ![p] = "none"]
    /\ OnVaultEvent
    /\ ops' = ops + 1
    /\ UNCHANGED <<inflight, batch, hist, effects, modal>>
    /\ UNCHANGED settingsVars
    /\ UNCHANGED <<hideFilesWithNotes, hasHiddenFiles, explorer, passLog,
                   unloaded, layoutReady>>
    /\ UNCHANGED <<pureVars, probeVars, notices, folderVars>>

\* vault.on('rename'): a file is renamed from p to q.  The explorer moves
\* the item to the new key; whether it keeps the item's element (and with it
\* the marker) or builds a new one is the host's choice.
VaultRenameEvent(p, q, keepsElement) ==
    /\ ops < MaxOps
    /\ vault[p] = "file"
    /\ vault[q] = "none"
    /\ vault' = [vault EXCEPT ![p] = "none", ![q] = "file"]
    /\ items' = [items EXCEPT
                    ![p] = "none",
                    ![q] = IF items[p] = "none" THEN "none"
                           ELSE IF keepsElement THEN items[p] ELSE "shown"]
    /\ OnVaultEvent
    /\ ops' = ops + 1
    /\ UNCHANGED <<inflight, batch, hist, effects, modal>>
    /\ UNCHANGED settingsVars
    /\ UNCHANGED <<hideFilesWithNotes, hasHiddenFiles, explorer, passLog,
                   unloaded, layoutReady>>
    /\ UNCHANGED <<pureVars, probeVars, notices, folderVars>>

\* One tick of the clock while the timer runs
Tick ==
    /\ timer.armed
    /\ timer.left > 0
    /\ timer' = [timer EXCEPT !.left = @ - 1]
    /\ burst' = [burst EXCEPT !.since = @ + 1]
    /\ UNCHANGED <<vaultVars, settingsVars>>
    /\ UNCHANGED <<hideFilesWithNotes, hasHiddenFiles, items, explorer,
                   passLog, unloaded, layoutReady>>
    /\ UNCHANGED <<pureVars, probeVars, notices, folderVars>>

\* The timer of debouncedUpdate expires: update() runs
DebounceFires ==
    /\ timer.armed
    /\ timer.left = 0
    /\ timer' = NoTimer
    /\ burst' = [burst EXCEPT !.passes = @ + 1]
    /\ RunUpdate("debounce")
    /\ UNCHANGED <<vaultVars, settingsVars>>
    /\ UNCHANGED <<hideFilesWithNotes, explorer, unloaded, layoutReady>>
    /\ UNCHANGED <<pureVars, probeVars, notices, folderVars>>

\* toggleFilesWithNotesVisibility() up to its await of saveSettings (the
\* toggle of the settings tab does the same with the value it is given)
ToggleFilesWithNotesVisibility ==
    /\ ops < MaxOps
    /\ pendingSaves < MaxPending
    /\ ~unloaded
    /\ hideFilesWithNotes' = ~hideFilesWithNotes
    /\ pendingSaves' = pendingSaves + 1
    /\ ops' = ops + 1
    /\ UNCHANGED <<vault, inflight, batch, hist, effects, modal>>
    /\ UNCHANGED <<fileExtensions, autoCreate, excludedFiles, excludedFolders,
                   excludedFilesSet, excludedFoldersSet, cachedExtensions,
                   togLog>>
    /\ UNCHANGED <<hasHiddenFiles, items, explorer, timer, burst, passLog,
                   unloaded, layoutReady>>
    /\ UNCHANGED <<pureVars, probeVars, notices, folderVars>>

\* toggleFilesWithNotesVisibility() past its await: saveSettings finishes,
\* then this.hiddenFiles.update()
ToggleVisibilityResumes ==
    /\ pendingSaves > 0
    /\ pendingSaves' = pendingSaves - 1
    /\ cachedExtensions' = [NullCache EXCEPT !.inval = cachedExtensions.inval + 1]
    /\ excludedFilesSet' = SetOf(excludedFiles)
    /\ excludedFoldersSet' = SetOf(excludedFolders)
    /\ RunUpdate("toggle")
    /\ UNCHANGED <<fileExtensions, autoCreate, excludedFiles, excludedFolders,
                   togLog>>
    /\ UNCHANGED vaultVars
    /\ UNCHANGED <<hideFilesWithNotes, explorer, timer, burst, unloaded,
                   layoutReady>>
    /\ UNCHANGED <<pureVars, probeVars, notices, folderVars>>

\* onunload(): cancelPendingUpdate()
Onunload ==
    /\ ops < MaxOps
    /\ ~unloaded
    /\ unloaded' = TRUE
    /\ timer' = NoTimer
    /\ ops' = ops + 1
    /\ UNCHANGED <<vault, inflight, batch, hist, effects, modal>>
    /\ UNCHANGED settingsVars
    /\ UNCHANGED <<hideFilesWithNotes, hasHiddenFiles, items, explorer, burst,
                   passLog, layoutReady>>
    /\ UNCHANGED <<pureVars, probeVars, notices, folderVars>>

\* The callback onload gave to workspace.onLayoutReady: update()
LayoutReady ==
    /\ ~layoutReady
    /\ ~unloaded
    /\ layoutReady' = TRUE
    /\ RunUpdate("layout")
    /\ UNCHANGED <<vaultVars, settingsVars>>
    /\ UNCHANGED <<hideFilesWithNotes, explorer, timer, burst, unloaded>>
    /\ UNCHANGED <<pureVars, probeVars, notices, folderVars>>

\* The user closes the file explorer: its items are gone
ExplorerCloses ==
    /\ ops < MaxOps
    /\ explorer
    /\ explorer' = FALSE
    /\ items' = [p \in ItemPaths |-> "none"]
    /\ ops' = ops + 1
    /\ UNCHANGED <<vault, inflight, batch, hist, effects, modal>>
    /\ UNCHANGED settingsVars
    /\ UNCHANGED <<hideFilesWithNotes, hasHiddenFiles, timer, burst, passLog,
                   unloaded, layoutReady>>
    /\ UNCHANGED <<pureVars, probeVars, notices, folderVars>>

\* The items of a newly opened explorer: one per file and folder, unmarked
FreshItems(v) ==
    [p \in ItemPaths |->
        IF p \in Folders \/ v[p] = "file" THEN "shown" ELSE "none"]

\* The user opens the file explorer again
ExplorerOpens ==
    /\ ops < MaxOps
    /\ ~explorer
    /\ explorer' = TRUE
    /\ items' = FreshItems(vault)
    /\ ops' = ops + 1
    /\ UNCHANGED <<vault, inflight, batch, hist, effects, modal>>
    /\ UNCHANGED settingsVars
    /\ UNCHANGED <<hideFilesWithNotes, hasHiddenFiles, timer, burst, passLog,
                   unloaded, layoutReady>>
    /\ UNCHANGED <<pureVars, probeVars, notices, folderVars>>

-----------------------------------------------------------------------------
(* SpecHidden: the hide setting, the vault events and the update passes *)

\* The files that come and go in SpecHidden
HiddenCreates == {F_a_md, F_d_md}
HiddenDeletes == {F_a_md, F_d_md}
HiddenRenames == {<<F_a_mp4, F_R>>, <<F_a_mp4, F_a_pdf>>}

InitHidden ==
    /\ vault \in [Universe -> {"none", "file"}]
    /\ vault[F_a_mp4] = "file"
    /\ \A p \in Universe \ {F_a_mp4, F_a_md, F_d_md} : vault[p] = "none"
    /\ inflight = <<>>
    /\ batch = IdleBatch
    /\ hist = IdleHist
    /\ effects = {}
    /\ modal = ClosedModal
    /\ ops = 0
    /\ fileExtensions = S_mp4
    /\ autoCreate = FALSE
    /\ excludedFiles = <<>>
    /\ excludedFolders = <<>>
    /\ excludedFilesSet = {}
    /\ excludedFoldersSet = {}
    /\ cachedExtensions = NullCache
    /\ pendingSaves = 0
    /\ togLog = <<>>
    /\ hideFilesWithNotes \in BOOLEAN
    /\ hasHiddenFiles = FALSE
    /\ explorer = TRUE
    /\ items = FreshItems(vault)
    /\ timer = NoTimer
    /\ burst = NoBurst
    /\ passLog = NoPass
    /\ unloaded = FALSE
    /\ layoutReady = FALSE
    /\ notices = 0
    /\ FolderIdle
    /\ PathIdle
    /\ ContentIdle
    /\ ProbeIdle

NextHidden ==
    \/ \E p \in HiddenCreates : VaultCreateEvent(p)
    \/ \E p \in HiddenDeletes : VaultDeleteEvent(p)
    \/ \E r \in HiddenRenames, k \in BOOLEAN : VaultRenameEvent(r[1], r[2], k)
    \/ Tick
    \/ DebounceFires
    \/ ToggleFilesWithNotesVisibility
    \/ ToggleVisibilityResumes
    \/ Onunload
    \/ LayoutReady
    \/ ExplorerCloses
    \/ ExplorerOpens

SpecHidden == InitHidden /\ [][NextHidden]_vars

\* The timer runs down and fires: the host's clock and event loop
SpecHiddenFair ==
    SpecHidden /\ WF_vars(Tick) /\ WF_vars(DebounceFires)


-----------------------------------------------------------------------------
(* C13, C14, C15, C19: the update pass, its debounce and teardown *)

\* A step in which update() was called
PassStep == passLog'.bit # passLog.bit

\* A step in which update() ran its loop over the items to the end
CompletedPassStep == PassStep /\ passLog'.kind = "complete"

\* The items the explorer holds after the step
VisibleAfter == {p \in ItemPaths : items'[p] # "none"}

\* C13: after an update pass that runs to completion with the hide setting
\* on, a visible item is marked hidden if and only if its derived note path
\* differs from its own path and a note exists there, every other item being
\* unmarked; and no update pass creates, deletes or moves a vault file.
C13_CompletedPassMarksExactly ==
    [][/\ (CompletedPassStep /\ hideFilesWithNotes) =>
              \A p \in VisibleAfter :
                  items'[p] = "hidden" <=>
                      /\ ItemNotePath(p) # p
                      /\ GetAbstractFileByPath(vault', ItemNotePath(p)) # "none"
       /\ PassStep => vault' = vault]_vars

\* C14: a burst of vault events, each less than the delay after the one
\* before, gets exactly one debounced update pass; the pass runs only when
\* the full delay has passed since the last event of the burst; and unless
\* the plugin is unloaded the pass eventually runs.
C14_TrailingEdgeDebounce ==
    /\ [](burst.passes <= 1)
    /\ [][(PassStep /\ passLog'.by = "debounce") =>
              /\ burst.since = DelayTicks
              /\ burst.passes = 0
              /\ burst'.passes = 1]_vars
    /\ (timer.armed ~> (unloaded \/ (burst.passes = 1 /\ ~timer.armed)))

\* a burst of two events got its one pass
C14_Witness ==
    /\ burst.events = 2
    /\ burst.passes = 1
    /\ burst.since = DelayTicks
    /\ passLog.by = "debounce"
    /\ passLog.kind = "complete"
    /\ ~timer.armed
    /\ ~unloaded

\* C15: once onunload has run, no update pass runs over the explorer's
\* items, neither from the debounce timer nor from an operation that was
\* waiting for saveSettings when the plugin was unloaded.
C15_NoPassAfterUnload ==
    ~(passLog.unloaded /\ passLog.kind = "complete")

\* C19: hasHiddenFiles is true whenever some item carries the hidden marker,
\* so that update() never returns early while an item is still marked.
C19_FlagCoversEveryMarker ==
    (\E p \in ItemPaths : items[p] = "hidden") => hasHiddenFiles


-----------------------------------------------------------------------------
(* SpecFolder: the notes-folder setting, the frontmatter toggle, getNotePath *)

NF_rel == <<".", "/", "N">>
NF_central == <<"N">>
NF_typed == <<" ", "N">>

\* The values of notesFolder a data.json may hold
PersistedFolders == {<<>>, NF_rel, NF_central}

\* What the user may leave in the notes-folder input
TypedFolders == {<<>>, NF_rel, NF_central, NF_typed}

\* The source files getNotePath is asked about
FolderSources == {F_a_mp4, F_dv_c_mp4}

\* isCentralFolderMode(value): non-empty and not starting with '.'
IsCentralFolderMode(value) == value # <<>> /\ ~StartsWith(value, <<".">>)

\* updateFrontmatterToggle(folderValue): the setting and the toggle
\* afterwards, given the toggle as it stands
FrontmatterAfter(folderValue, asf, t) ==
    IF IsCentralFolderMode(folderValue)
    THEN [asf |-> TRUE, tab |-> [open |-> TRUE, on |-> TRUE, disabled |-> TRUE]]
    ELSE [asf |-> asf, tab |-> [t EXCEPT !.open = TRUE, !.disabled = FALSE]]

\* The saves started by updateFrontmatterToggle: toggle.setValue(true) runs
\* the toggle's onChange, which saves, if the host notifies on setValue
SavesOfSetValue(folderValue, notifies) ==
    IF IsCentralFolderMode(folderValue) /\ notifies THEN 1 ELSE 0

\* FileNoteSettingTab.display(): the toggle shows the setting, then
\* updateFrontmatterToggle(settings.notesFolder)
DisplaySettingsTab(notifies) ==
    /\ ops < MaxOps
    /\ ~tab.open
    /\ pendingSaves + SavesOfSetValue(notesFolder, notifies) <= MaxPending
    /\ LET r == FrontmatterAfter(notesFolder, addSourceFrontmatter,
                    [open |-> TRUE, on |-> addSourceFrontmatter,
                     disabled |-> FALSE])
       IN  /\ addSourceFrontmatter' = r.asf
           /\ tab' = r.tab
    /\ pendingSaves' = pendingSaves + SavesOfSetValue(notesFolder, notifies)
    /\ ops' = ops + 1
    /\ UNCHANGED notesFolder
    /\ UNCHANGED <<vault, inflight, batch, hist, effects, modal>>
    /\ UNCHANGED <<fileExtensions, autoCreate, excludedFiles, excludedFolders,
                   excludedFilesSet, excludedFoldersSet, cachedExtensions,
                   togLog>>
    /\ UNCHANGED <<pureVars, probeVars, notices, hiddenVars>>

\* The user leaves the settings tab
HideSettingsTab ==
    /\ ops < MaxOps
    /\ tab.open
    /\ tab' = ClosedTab
    /\ ops' = ops + 1
    /\ UNCHANGED <<notesFolder, addSourceFrontmatter>>
    /\ UNCHANGED <<vault, inflight, batch, hist, effects, modal>>
    /\ UNCHANGED settingsVars
    /\ UNCHANGED <<pureVars, probeVars, notices, hiddenVars>>

\* The 'input' listener of the notes-folder input, the input holding raw
EditNotesFolder(raw, notifies) ==
    /\ ops < MaxOps
    /\ tab.open
    /\ pendingSaves + 1 + SavesOfSetValue(Trim(raw), notifies) <= MaxPending
    /\ notesFolder' = Trim(raw)
    /\ LET r == FrontmatterAfter(Trim(raw), addSourceFrontmatter, tab)
       IN  /\ addSourceFrontmatter' = r.asf
           /\ tab' = r.tab
    /\ pendingSaves' =
           pendingSaves + 1 + SavesOfSetValue(Trim(raw), notifies)
    /\ ops' = ops + 1
    /\ UNCHANGED <<vault, inflight, batch, hist, effects, modal>>
    /\ UNCHANGED <<fileExtensions, autoCreate, excludedFiles, excludedFolders,
                   excludedFilesSet, excludedFoldersSet, cachedExtensions,
                   togLog>>
    /\ UNCHANGED <<pureVars, probeVars, notices, hiddenVars>>

\* The user clicks the frontmatter toggle (a disabled toggle takes no
\* click): its onChange sets the setting and saves
ClickFrontmatterToggle ==
    /\ ops < MaxOps
    /\ tab.open
    /\ ~tab.disabled
    /\ pendingSaves < MaxPending
    /\ tab' = [tab EXCEPT !.on = ~tab.on]
    /\ addSourceFrontmatter' = ~tab.on
    /\ pendingSaves' = pendingSaves + 1
    /\ ops' = ops + 1
    /\ UNCHANGED notesFolder
    /\ UNCHANGED <<vault, inflight, batch, hist, effects, modal>>
    /\ UNCHANGED <<fileExtensions, autoCreate, excludedFiles, excludedFolders,
                   excludedFilesSet, excludedFoldersSet, cachedExtensions,
                   togLog>>
    /\ UNCHANGED <<pureVars, probeVars, notices, hiddenVars>>

\* loadSettings(): the defaults overlaid with whatever data.json holds
InitFolder ==
    /\ notesFolder \in PersistedFolders
    /\ addSourceFrontmatter \in BOOLEAN
    /\ tab = ClosedTab
    /\ pathIn \in FolderSources
    /\ pathOut = <<>>
    /\ pathDone = FALSE
    /\ ContentIdle
    /\ VaultIdle
    /\ fileExtensions = S_mp4
    /\ autoCreate = FALSE
    /\ excludedFiles = <<>>
    /\ excludedFolders = <<>>
    /\ excludedFilesSet = {}
    /\ excludedFoldersSet = {}
    /\ cachedExtensions = NullCache
    /\ pendingSaves = 0
    /\ togLog = <<>>
    /\ ProbeIdle
    /\ notices = 0
    /\ HiddenIdle

NextFolder ==
    \/ \E n \in BOOLEAN : DisplaySettingsTab(n)
    \/ HideSettingsTab
    \/ \E raw \in TypedFolders, n \in BOOLEAN : EditNotesFolder(raw, n)
    \/ ClickFrontmatterToggle
    \/ SaveSettingsCompletes
    \/ ApplyGetNotePath

SpecFolder == InitFolder /\ [][NextFolder]_vars

\* The folder the claim puts the note of the file at path in
NotesFolderOf(folder, path) ==
    IF folder = <<>> THEN ParentPath(path)
    ELSE IF StartsWith(folder, <<".", "/">>)
         THEN IF ParentPath(path) = <<>>
              THEN SubSeq(folder, 3, Len(folder))
              ELSE ParentPath(path) \o <<"/">> \o SubSeq(folder, 3, Len(folder))
         ELSE folder

\* folder/basename.md, without the '/' at the vault's root
JoinNotePath(folder, path) ==
    IF folder = <<>> THEN BaseName(path) \o DotMd
    ELSE folder \o <<"/">> \o BaseName(path) \o DotMd

\* C16: getNotePath honours notesFolder: empty, the note is beside the
\* source; './X', it is in subfolder X of the source's folder; 'X', it is in
\* the shared folder X.
C16_NotePathHonoursNotesFolder ==
    pathDone =>
        pathOut = JoinNotePath(NotesFolderOf(notesFolder, pathIn), pathIn)

\* C17: in every settings state reached from loading the persisted settings
\* by edits of the notes-folder input and clicks of the frontmatter toggle,
\* centralized mode implies addSourceFrontmatter.
C17_CentralModeHasFrontmatter ==
    IsCentralFolderMode(notesFolder) => addSourceFrontmatter


-----------------------------------------------------------------------------
(* C18: the exclusion Sets at the moment they are read *)

\* A toggleFileExclusion / toggleFolderExclusion call with exclude = true:
\* it reads its Set for the duplicate test
DuplicateTestStep ==
    /\ ops' = ops + 1
    /\ togLog' # <<>>
    /\ togLog'[Len(togLog')].exclude

\* C18: whenever an exclusion Set is read (here by the duplicate test of a
\* toggle call), excludedFilesSet and excludedFoldersSet hold exactly the
\* paths of settings.excludedFiles and settings.excludedFolders, a save that
\* is still awaiting notwithstanding.
C18_SetsMatchListsWhenRead ==
    [][DuplicateTestStep =>
          /\ excludedFilesSet = SetOf(excludedFiles)
          /\ excludedFoldersSet = SetOf(excludedFolders)]_vars


-----------------------------------------------------------------------------
(* C20: what a confirmed bulk removal deletes *)

\* C20: every note a confirmed bulk removal deletes was in the list the
\* confirmation dialog showed, whatever changed in the vault between the
\* opening of the dialog and the click on Delete.
C20_DeletesOnlyListedNotes ==
    \A k \in 1..Len(inflight) :
        (/\ inflight[k].owner = "batch"
         /\ inflight[k].op = "delete"
         /\ batch.kind = "remove")
            => inflight[k].path \in SetOf(batch.expected)


-----------------------------------------------------------------------------
(* SpecAuto: auto-create, and the 'create' events of the notes it makes *)

E_mp4_md == <<"m", "p", "4", ",", "m", "d">>

\* The extension strings of SpecAuto: with and without md, in either case
AutoStrings == {S_mp4, MdExt, E_Md, E_mp4_md, S_mp4_pdf}

\* The files that may be in the vault when auto-create is switched on
AutoPresent == {F_a_md, F_R}

InitAuto ==
    /\ vault \in [Universe -> {"none", "file"}]
    /\ \A p \in Universe \ AutoPresent : vault[p] = "none"
    /\ inflight = <<>>
    /\ batch = IdleBatch
    /\ hist = IdleHist
    /\ effects = {}
    /\ modal = ClosedModal
    /\ ops = 0
    /\ fileExtensions \in AutoStrings
    /\ autoCreate = TRUE
    /\ excludedFiles = <<>>
    /\ excludedFolders = <<>>
    /\ excludedFilesSet = {}
    /\ excludedFoldersSet = {}
    /\ cachedExtensions = NullCache
    /\ pendingSaves = 0
    /\ togLog = <<>>
    /\ PathIdle
    /\ ContentIdle
    /\ ProbeIdle
    /\ MoreIdle

\* vault.create settles, one way or the other
StorageCreateSettles ==
    \E k \in 1..MaxInflight : StorageCreateResolves(k) \/ StorageRejects(k)

NextAuto ==
    \/ \E p \in Universe : UserAddsFile(p)
    \/ \E k \in 1..MaxInflight : StorageCreateResolves(k)
    \/ \E k \in 1..MaxInflight : StorageRejects(k)

SpecAuto == InitAuto /\ [][NextAuto]_vars

\* Every call to the host's storage settles in the end
SpecAutoFair == SpecAuto /\ WF_vars(StorageCreateSettles)

\* The notes the plugin has created so far
CreatedNotes == {e \in effects : e.op = "create"}

\* C21: the 'create' event of a note the plugin created, and of any .md
\* file, starts no note creation, whatever the extensions string (md listed
\* or not); a source file's 'create' event starts at most one; so no more
\* notes are created than source files were added, and the pending storage
\* calls always drain.
C21_AutoCreateDoesNotCascade ==
    /\ [][(\E k \in 1..MaxInflight : StorageCreateResolves(k)) =>
              Len(inflight') = Len(inflight) - 1]_vars
    /\ [][\A p \in Universe : UserAddsFile(p) =>
              /\ Len(inflight') <= Len(inflight) + 1
              /\ ToLowerCase(Extension(p)) = MdExt => inflight' = inflight]_vars
    /\ [](Cardinality(CreatedNotes) <= ops)
    /\ []<>(inflight = <<>>)

\* md is listed, a.mp4 was added, its note was created and the note's own
\* 'create' event has been handled: nothing is pending
C21_Witness ==
    /\ autoCreate
    /\ fileExtensions = E_mp4_md
    /\ [op |-> "create", src |-> F_a_mp4, path |-> F_a_md] \in effects
    /\ vault[F_a_md] = "file"
    /\ inflight = <<>>


-----------------------------------------------------------------------------
(* C22: what a folder command touches *)

\* The running createFileNotes / removeFileNotes call was given files of the
\* folder only, as createFileNotesInFolder and removeFileNotesInFolder give
FolderScopedBatch(folder) ==
    /\ batch.kind # "none"
    /\ batch.files # <<>>
    /\ \A i \in 1..Len(batch.files) :
           StartsWith(batch.files[i], folder \o <<"/">>)

\* C22: createFileNotesInFolder(F) creates files only under F and a
\* confirmed removeFileNotesInFolder(F) deletes files only under F: every
\* storage call of the batch is for a path that starts with F/, a dot in the
\* folder's name notwithstanding.
C22_FolderBatchStaysInFolder ==
    \A d \in Folders :
        FolderScopedBatch(d) =>
            \A k \in 1..Len(inflight) :
                inflight[k].owner = "batch" =>
                    StartsWith(inflight[k].path, d \o <<"/">>)

====
